---- MODULE Spec2Model ----
(***************************************************************************)
(* Model of synapse/storage/databases/main/task_scheduler.py:              *)
(* TaskSchedulerWorkerStore, the persistence layer of scheduled tasks.     *)
(*                                                                         *)
(* The table scheduled_tasks is a set of rows.  Every store method is      *)
(* split at its single await: Invoke runs the code before the await (the   *)
(* dict of values, the clauses), Commit runs the database primitive as one *)
(* transaction together with the code after the await (row conversion,     *)
(* nb_rows > 0), Fail is the transaction raising, Return hands the result  *)
(* to the caller.                                                          *)
(***************************************************************************)
EXTENDS Integers, Sequences, FiniteSets, TLC

VARIABLES table, pc, call, ret, live, stored, hist, nwrites

vars == <<table, pc, call, ret, live, stored, hist, nwrites>>

(***************************************************************************)
(* Python values.  None is Python's None and SQL NULL (the driver maps one *)
(* to the other); an Optional value that is present is Some(v).            *)
(***************************************************************************)
None == [k |-> "None"]

Some(v) == [k |-> "Some", v |-> v]

(***************************************************************************)
(* JSON.  A JSON value is an integer, a string (a sequence of characters)  *)
(* or an object: a sequence of <<key, value>> members in insertion order.  *)
(* A text is a sequence of one-character strings.                          *)
(***************************************************************************)
JInt(n) == [k |-> "int", n |-> n]

JStr(s) == [k |-> "jstr", c |-> s]

JObj(m) == [k |-> "obj", m |-> m]

Member(key, val) == [key |-> key, val |-> val]

JSONDecodeError == [k |-> "JSONDecodeError"]

DigitChars == <<"0", "1", "2", "3", "4", "5", "6", "7", "8", "9">>

RECURSIVE Digits(_)
Digits(n) == IF n < 10 THEN <<DigitChars[n + 1]>>
             ELSE Digits(n \div 10) \o <<DigitChars[(n % 10) + 1]>>

RECURSIVE EscapeChars(_)
EscapeChars(s) ==
    IF s = <<>> THEN <<>>
    ELSE (IF Head(s) \in {"\"", "\\"} THEN <<"\\", Head(s)>> ELSE <<Head(s)>>)
         \o EscapeChars(Tail(s))

DumpsStr(s) == <<"\"">> \o EscapeChars(s) \o <<"\"">>

RECURSIVE json_dumps(_)
RECURSIVE DumpsMembers(_)
DumpsMembers(m) ==
    IF m = <<>> THEN <<>>
    ELSE DumpsStr(Head(m).key) \o <<":", " ">> \o json_dumps(Head(m).val)
         \o (IF Len(m) > 1 THEN <<",", " ">> ELSE <<>>)
         \o DumpsMembers(Tail(m))

json_dumps(v) ==
    CASE v.k = "int"  -> Digits(v.n)
      [] v.k = "jstr" -> DumpsStr(v.c)
      [] v.k = "obj"  -> <<"{">> \o DumpsMembers(v.m) \o <<"}">>

(***************************************************************************)
(* The decoder is a recursive-descent parser over the text.  Each Parse    *)
(* operator returns [ok, v, i]: success, the value, the next position.     *)
(***************************************************************************)
ParseFail == [ok |-> FALSE, v |-> JSONDecodeError, i |-> 0]

RECURSIVE SkipWs(_, _)
SkipWs(t, i) == IF i <= Len(t) /\ t[i] = " " THEN SkipWs(t, i + 1) ELSE i

DigitValue(ch) == CHOOSE d \in 0..9 : DigitChars[d + 1] = ch

IsDigit(ch) == \E d \in 1..10 : DigitChars[d] = ch

RECURSIVE ParseDigits(_, _, _)
ParseDigits(t, i, acc) ==
    IF i <= Len(t) /\ IsDigit(t[i])
    THEN ParseDigits(t, i + 1, acc * 10 + DigitValue(t[i]))
    ELSE [ok |-> TRUE, v |-> JInt(acc), i |-> i]

RECURSIVE ParseChars(_, _, _)
ParseChars(t, i, acc) ==
    IF i > Len(t) THEN ParseFail
    ELSE IF t[i] = "\"" THEN [ok |-> TRUE, v |-> acc, i |-> i + 1]
    ELSE IF t[i] = "\\"
         THEN IF i + 1 > Len(t) THEN ParseFail
              ELSE ParseChars(t, i + 2, Append(acc, t[i + 1]))
    ELSE ParseChars(t, i + 1, Append(acc, t[i]))

RECURSIVE ParseValue(_, _)
RECURSIVE ParseMembers(_, _, _)
ParseMembers(t, i0, acc) ==
    LET i == SkipWs(t, i0) IN
    IF i > Len(t) \/ t[i] # "\"" THEN ParseFail
    ELSE LET key == ParseChars(t, i + 1, <<>>) IN
         IF ~key.ok THEN ParseFail
         ELSE LET j == SkipWs(t, key.i) IN
              IF j > Len(t) \/ t[j] # ":" THEN ParseFail
              ELSE LET val == ParseValue(t, j + 1) IN
                   IF ~val.ok THEN ParseFail
                   ELSE LET n    == SkipWs(t, val.i)
                            acc2 == Append(acc, Member(key.v, val.v))
                        IN IF n > Len(t) THEN ParseFail
                           ELSE IF t[n] = "}"
                                THEN [ok |-> TRUE, v |-> JObj(acc2), i |-> n + 1]
                           ELSE IF t[n] = ","
                                THEN ParseMembers(t, n + 1, acc2)
                           ELSE ParseFail

ParseValue(t, i0) ==
    LET i == SkipWs(t, i0) IN
    IF i > Len(t) THEN ParseFail
    ELSE IF t[i] = "{"
         THEN LET j == SkipWs(t, i + 1) IN
              IF j <= Len(t) /\ t[j] = "}"
              THEN [ok |-> TRUE, v |-> JObj(<<>>), i |-> j + 1]
              ELSE ParseMembers(t, i + 1, <<>>)
    ELSE IF t[i] = "\""
         THEN LET s == ParseChars(t, i + 1, <<>>) IN
              IF s.ok THEN [ok |-> TRUE, v |-> JStr(s.v), i |-> s.i] ELSE ParseFail
    ELSE IF IsDigit(t[i]) THEN ParseDigits(t, i, 0)
    ELSE ParseFail

json_loads(t) ==
    LET r == ParseValue(t, 1) IN
    IF r.ok /\ SkipWs(t, r.i) = Len(t) + 1 THEN r.v ELSE JSONDecodeError

(***************************************************************************)
(* The table scheduled_tasks (synapse.types.ScheduledTask, TaskStatus and  *)
(* the schema are outside this file).                                      *)
(***************************************************************************)
Cols == {"id", "action", "status", "timestamp", "resource_id", "params", "result", "error"}

NullableCols == {"resource_id", "params", "result", "error"}

TaskStatusValues == {"scheduled", "active", "complete", "failed"}

Raised(e) == [k |-> "raise", exc |-> e]

Returned(v) == [k |-> "return", v |-> v]

IsRaised(x) == "exc" \in DOMAIN x

\* TaskStatus(value): the enum member of that value, ValueError otherwise.
TaskStatus(s) == IF s \in TaskStatusValues THEN Returned(s) ELSE Raised("ValueError")

\* A column of a row as an SQL value: None for NULL, Some(v) otherwise.
SqlValue(row, col) == IF col \in NullableCols THEN row[col] ELSE Some(row[col])

Matches(row, keyvalues) == \A col \in DOMAIN keyvalues : row[col] = keyvalues[col]

SetCols(row, values) ==
    [col \in Cols |-> IF col \in DOMAIN values THEN values[col] ELSE row[col]]

(***************************************************************************)
(* The primitives of DatabasePool that the store calls.                    *)
(***************************************************************************)
\* Insert keyvalues+values, or set values on the row keyvalues selects.
simple_upsert(tbl, keyvalues, values) ==
    LET hit == {r \in tbl : Matches(r, keyvalues)}
        new == [col \in Cols |-> IF col \in DOMAIN keyvalues THEN keyvalues[col]
                                 ELSE IF col \in DOMAIN values THEN values[col]
                                 ELSE None]
    IN IF hit # {}
       THEN [err |-> FALSE,
             tbl |-> {IF r \in hit THEN SetCols(r, values) ELSE r : r \in tbl}]
       ELSE IF \E r \in tbl : r.id = new.id
            THEN [err |-> TRUE, tbl |-> tbl]
            ELSE [err |-> FALSE, tbl |-> tbl \cup {new}]

\* Set updatevalues on the rows keyvalues selects; the number of rows hit.
simple_update(tbl, keyvalues, updatevalues) ==
    LET hit == {r \in tbl : Matches(r, keyvalues)}
    IN [rowcount |-> Cardinality(hit),
        tbl |-> {IF r \in hit THEN SetCols(r, updatevalues) ELSE r : r \in tbl}]

\* The rows keyvalues selects, cut to retcols; None when there is none.
simple_select_one(tbl, keyvalues, retcols) ==
    LET hit == {r \in tbl : Matches(r, keyvalues)}
    IN IF hit = {} THEN None
       ELSE IF Cardinality(hit) > 1 THEN Raised("StoreError")
       ELSE LET r == CHOOSE x \in hit : TRUE IN Some([col \in retcols |-> r[col]])

simple_delete(tbl, keyvalues) == {r \in tbl : ~Matches(r, keyvalues)}

\* "column is one of the values"; with no value, "column IS NULL".
make_in_list_sql_clause(column, iterable) == [col |-> column, vals |-> iterable]

Satisfies(row, clause) ==
    IF clause.vals = <<>>
    THEN SqlValue(row, clause.col) = None
    ELSE \E i \in 1..Len(clause.vals) : SqlValue(row, clause.col) = Some(clause.vals[i])

(***************************************************************************)
(* TaskSchedulerWorkerStore                                                *)
(***************************************************************************)
\* "json.loads(text) or None": an empty object read as None
LoadsOrNone_or_none(text) ==
    IF text # None /\ json_loads(text.v) # JObj(<<>>) THEN Some(json_loads(text.v)) ELSE None

LoadsOrNone(text) == IF text # None THEN Some(json_loads(text.v)) ELSE None

convert_row_to_task(row) ==
    LET status == TaskStatus(row.status)
        params == LoadsOrNone(row.params)
        result == LoadsOrNone(row.result)
    IN IF IsRaised(status) THEN status
       ELSE IF params # None /\ params.v = JSONDecodeError THEN Raised("JSONDecodeError")
       ELSE IF result # None /\ result.v = JSONDecodeError THEN Raised("JSONDecodeError")
       ELSE [id |-> row.id, action |-> row.action, status |-> status.v,
             timestamp |-> row.timestamp, resource_id |-> row.resource_id,
             params |-> params, result |-> result, error |-> row.error]

\* every clause appended, None taken as the empty list
ListClauses_unconditional(actions, resource_ids, statuses) ==
    <<make_in_list_sql_clause("action", IF actions # None THEN actions.v ELSE <<>>),
      make_in_list_sql_clause("resource_id", IF resource_ids # None THEN resource_ids.v ELSE <<>>),
      make_in_list_sql_clause("status", IF statuses # None THEN statuses.v ELSE <<>>)>>

\* "if actions:" and "if statuses:" in place of "is not None"
ListClauses_truthy_actions(actions, resource_ids, statuses) ==
    (IF actions # None /\ actions.v # <<>>
     THEN <<make_in_list_sql_clause("action", actions.v)>> ELSE <<>>)
    \o (IF resource_ids # None
        THEN <<make_in_list_sql_clause("resource_id", resource_ids.v)>> ELSE <<>>)
    \o (IF statuses # None /\ statuses.v # <<>>
        THEN <<make_in_list_sql_clause("status", statuses.v)>> ELSE <<>>)

\* "if resource_ids:" in place of "if resource_ids is not None:"
ListClauses_truthy(actions, resource_ids, statuses) ==
    (IF actions # None
     THEN <<make_in_list_sql_clause("action", actions.v)>> ELSE <<>>)
    \o (IF resource_ids # None /\ resource_ids.v # <<>>
        THEN <<make_in_list_sql_clause("resource_id", resource_ids.v)>> ELSE <<>>)
    \o (IF statuses # None
        THEN <<make_in_list_sql_clause("status", statuses.v)>> ELSE <<>>)

\* The clauses get_scheduled_tasks_txn builds from the three arguments.
ListClauses(actions, resource_ids, statuses) ==
    (IF actions # None
     THEN <<make_in_list_sql_clause("action", actions.v)>> ELSE <<>>)
    \o (IF resource_ids # None
        THEN <<make_in_list_sql_clause("resource_id", resource_ids.v)>> ELSE <<>>)
    \o (IF statuses # None
        THEN <<make_in_list_sql_clause("status", statuses.v)>> ELSE <<>>)

\* " OR ".join(clauses)
get_scheduled_tasks_txn_or(tbl, clauses) ==
    {r \in tbl : clauses = <<>> \/ \E i \in 1..Len(clauses) : Satisfies(r, clauses[i])}

\* SELECT * FROM scheduled_tasks, WHERE the clauses joined by AND if there are any
get_scheduled_tasks_txn(tbl, clauses) ==
    {r \in tbl : clauses = <<>> \/ \A i \in 1..Len(clauses) : Satisfies(r, clauses[i])}

\* [convert_row_to_task(row) for row in rows]: the first raise ends the list.
RECURSIVE ConvertRows(_)
ConvertRows(rows) ==
    IF rows = <<>> THEN Returned(<<>>)
    ELSE LET t == convert_row_to_task(Head(rows)) IN
         IF IsRaised(t) THEN t
         ELSE LET rest == ConvertRows(Tail(rows)) IN
              IF IsRaised(rest) THEN rest ELSE Returned(<<t>> \o rest.v)

\* "if not value" in place of "if value is None"
DumpsOrNone_falsy(value) ==
    IF value = None \/ value.v = JObj(<<>>) THEN None ELSE Some(json_dumps(value.v))

DumpsOrNone(value) == IF value = None THEN None ELSE Some(json_dumps(value.v))

\* the row is looked up by id and action
UpsertKeyvalues_action(task) == [id |-> task.id, action |-> task.action]

UpsertKeyvalues(task) == [id |-> task.id]

\* only the attributes that are not None are written, as update does
UpsertValues_skip_none(task) ==
    LET all  == [action |-> task.action, status |-> task.status,
                 timestamp |-> task.timestamp, resource_id |-> task.resource_id,
                 params |-> DumpsOrNone(task.params),
                 result |-> DumpsOrNone(task.result), error |-> task.error]
        keys == {"action", "status", "timestamp"}
                \cup {col \in NullableCols : all[col] # None}
    IN [col \in keys |-> all[col]]

UpsertValues(task) ==
    [action |-> task.action, status |-> task.status, timestamp |-> task.timestamp,
     resource_id |-> task.resource_id, params |-> DumpsOrNone(task.params),
     result |-> DumpsOrNone(task.result), error |-> task.error]

\* str(status) of the enum member in place of its value
StatusRepr(s) ==
    CASE s = "scheduled" -> "TaskStatus.SCHEDULED"
      [] s = "active"    -> "TaskStatus.ACTIVE"
      [] s = "complete"  -> "TaskStatus.COMPLETE"
      [] s = "failed"    -> "TaskStatus.FAILED"

UpdateValues_str_status(timestamp, status, result, error) ==
    LET keys == (IF timestamp # None THEN {"timestamp"} ELSE {})
                \cup (IF status # None THEN {"status"} ELSE {})
                \cup (IF result # None THEN {"result"} ELSE {})
                \cup (IF error # None THEN {"error"} ELSE {})
    IN [col \in keys |-> CASE col = "timestamp" -> timestamp.v
                           [] col = "status"    -> StatusRepr(status.v)
                           [] col = "result"    -> Some(json_dumps(result.v))
                           [] col = "error"     -> error]

\* a task is never put back to scheduled
UpdateValues_forward_only(timestamp, status, result, error) ==
    LET keys == (IF timestamp # None THEN {"timestamp"} ELSE {})
                \cup (IF status # None /\ status.v # "scheduled" THEN {"status"} ELSE {})
                \cup (IF result # None THEN {"result"} ELSE {})
                \cup (IF error # None THEN {"error"} ELSE {})
    IN [col \in keys |-> CASE col = "timestamp" -> timestamp.v
                           [] col = "status"    -> status.v
                           [] col = "result"    -> Some(json_dumps(result.v))
                           [] col = "error"     -> error]

\* updatevalues["timestamp"] = timestamp or 0, without the test for None
UpdateValues_always_timestamp(timestamp, status, result, error) ==
    LET keys == {"timestamp"}
                \cup (IF status # None THEN {"status"} ELSE {})
                \cup (IF result # None THEN {"result"} ELSE {})
                \cup (IF error # None THEN {"error"} ELSE {})
    IN [col \in keys |-> CASE col = "timestamp" -> IF timestamp # None THEN timestamp.v ELSE 0
                           [] col = "status"    -> status.v
                           [] col = "result"    -> Some(json_dumps(result.v))
                           [] col = "error"     -> error]

\* "if timestamp:", "if result:", "if error:" in place of "is not None"
UpdateValues_truthy(timestamp, status, result, error) ==
    LET keys == (IF timestamp # None /\ timestamp.v # 0 THEN {"timestamp"} ELSE {})
                \cup (IF status # None THEN {"status"} ELSE {})
                \cup (IF result # None /\ result.v # JObj(<<>>) THEN {"result"} ELSE {})
                \cup (IF error # None /\ error.v # "" THEN {"error"} ELSE {})
    IN [col \in keys |-> CASE col = "timestamp" -> timestamp.v
                           [] col = "status"    -> status.v
                           [] col = "result"    -> Some(json_dumps(result.v))
                           [] col = "error"     -> error]

\* a new status without an error clears the stored error
UpdateValues_clear_error(timestamp, status, result, error) ==
    LET keys == (IF timestamp # None THEN {"timestamp"} ELSE {})
                \cup (IF status # None THEN {"status"} ELSE {})
                \cup (IF result # None THEN {"result"} ELSE {})
                \cup (IF error # None \/ status # None THEN {"error"} ELSE {})
    IN [col \in keys |-> CASE col = "timestamp" -> timestamp.v
                           [] col = "status"    -> status.v
                           [] col = "result"    -> Some(json_dumps(result.v))
                           [] col = "error"     -> error]

\* updatevalues["error"] = error without the test for None
UpdateValues_always_error(timestamp, status, result, error) ==
    LET keys == (IF timestamp # None THEN {"timestamp"} ELSE {})
                \cup (IF status # None THEN {"status"} ELSE {})
                \cup (IF result # None THEN {"result"} ELSE {})
                \cup {"error"}
    IN [col \in keys |-> CASE col = "timestamp" -> timestamp.v
                           [] col = "status"    -> status.v
                           [] col = "result"    -> Some(json_dumps(result.v))
                           [] col = "error"     -> error]

\* updatevalues: one entry for each argument that is not None.
UpdateValues(timestamp, status, result, error) ==
    LET keys == (IF timestamp # None THEN {"timestamp"} ELSE {})
                \cup (IF status # None THEN {"status"} ELSE {})
                \cup (IF result # None THEN {"result"} ELSE {})
                \cup (IF error # None THEN {"error"} ELSE {})
    IN [col \in keys |-> CASE col = "timestamp" -> timestamp.v
                           [] col = "status"    -> status.v
                           [] col = "result"    -> Some(json_dumps(result.v))
                           [] col = "error"     -> error]

\* no key: the update has no WHERE
UpdateKeyvalues_none(id) == <<>>

UpdateKeyvalues(id) == [id |-> id]

\* return nb_rows >= 0
UpdateReturn_ge(nb_rows) == nb_rows >= 0

\* return nb_rows > 0
UpdateReturn(nb_rows) == nb_rows > 0

GetRetcols == {"id", "action", "status", "timestamp", "resource_id", "params", "result", "error"}

\* allow_none left out: no row is an error of the store
GetTask_no_allow_none(tbl, id) ==
    LET row == simple_select_one(tbl, [id |-> id], GetRetcols)
    IN IF row = None THEN Raised("StoreError")
       ELSE IF IsRaised(row) THEN row
       ELSE LET t == convert_row_to_task(row.v) IN
            IF IsRaised(t) THEN t ELSE Returned(Some(t))

\* get_scheduled_task as a function of the table.
GetTask(tbl, id) ==
    LET row == simple_select_one(tbl, [id |-> id], GetRetcols)
    IN IF row = None THEN Returned(None)
       ELSE IF IsRaised(row) THEN row
       ELSE LET t == convert_row_to_task(row.v) IN
            IF IsRaised(t) THEN t ELSE Returned(Some(t))

\* only a completed task is deleted
DeleteKeyvalues_completed(id) == [id |-> id, status |-> "complete"]

DeleteKeyvalues(id) == [id |-> id]

(***************************************************************************)
(* Inputs.                                                                 *)
(***************************************************************************)
Callers == {"c1", "c2"}

Ids == {"t1", "t2"}

MaxWrites == 3

MaxWritesConc == 4

X1 == JObj(<<Member(<<"x">>, JInt(1))>>)

Nested == JObj(<<Member(<<"before">>, JInt(500)),
                 Member(<<"q">>, JObj(<<Member(<<"s">>, JStr(<<"a", "\"", "\\">>))>>))>>)

Task(id, action, status, timestamp, resource_id, params, result, error) ==
    [id |-> id, action |-> action, status |-> status, timestamp |-> timestamp,
     resource_id |-> resource_id, params |-> params, result |-> result, error |-> error]

TaskPool ==
    UNION {{ Task(id, "a1", "scheduled", 1000, Some("r1"), Some(Nested), None, None),
             Task(id, "a2", "active", 0, None, None, None, None),
             Task(id, "a1", "complete", 1000, Some("r2"), Some(JObj(<<>>)), Some(X1), None),
             Task(id, "a2", "failed", 1000, Some("r1"), Some(X1), Some(JObj(<<>>)), Some("boom")),
             Task(id, "a1", "failed", 0, None, None, None, Some("")) } : id \in Ids}

Kwargs(timestamp, status, result, error) ==
    [timestamp |-> timestamp, status |-> status, result |-> result, error |-> error]

\* Every subset of the four keyword arguments, and every value of each alone.
UpdatePool ==
    {Kwargs(ts, st, re, er) : ts \in {None, Some(0)}, st \in {None, Some("complete")},
                              re \in {None, Some(X1)}, er \in {None, Some("boom")}}
    \cup {Kwargs(Some(1005), None, None, None)}
    \cup {Kwargs(None, Some(st), None, None) : st \in TaskStatusValues}
    \cup {Kwargs(None, None, Some(JObj(<<>>)), None), Kwargs(None, None, None, Some("")),
          Kwargs(Some(0), None, Some(JObj(<<>>)), Some(""))}

Filter(actions, resource_ids, statuses) ==
    [actions |-> actions, resource_ids |-> resource_ids, statuses |-> statuses]

ActionFilters == {None, Some(<<>>), Some(<<"a1">>), Some(<<"a2", "a1">>)}

ResourceFilters == {None, Some(<<>>), Some(<<"r1">>), Some(<<"r2", "r1">>)}

StatusFilters == {None, Some(<<>>), Some(<<"scheduled", "failed">>)}

FilterPool ==
    {Filter(a, r, s) : a \in ActionFilters, r \in ResourceFilters, s \in StatusFilters}

\* What the callers of a specification may pass.
Inputs == [tasks |-> TaskPool, ids |-> Ids, kwargs |-> UpdatePool,
           filters |-> FilterPool, writes |-> MaxWrites]

ConcInputs ==
    [tasks   |-> {t \in TaskPool : t.id = "t1" /\ t.status \in {"scheduled", "complete"}},
     ids     |-> {"t1"},
     kwargs  |-> {Kwargs(None, Some("active"), None, None),
                  Kwargs(None, Some("failed"), None, Some("boom")),
                  Kwargs(None, None, Some(X1), None),
                  Kwargs(Some(1005), None, Some(JObj(<<>>)), None)},
     filters |-> {Filter(None, None, None)},
     writes  |-> MaxWritesConc]

(***************************************************************************)
(* State.  call[c] holds the arguments and the locals built before the     *)
(* await.  live, stored and hist are history: live is the set of ids       *)
(* upserted and not deleted since; stored[id] is the task last upserted    *)
(* under id while no update or delete of id has committed since; hist[c]   *)
(* records, at the commit of c, the table before it, the callers then      *)
(* waiting on their transaction, whether the transaction failed in the     *)
(* database, and later the callers that wrote the same id after it.        *)
(***************************************************************************)
NoCall == [name |-> "none"]

NoHist == [pre |-> {}, pending |-> {}, after |-> <<>>, failed |-> FALSE]

Init ==
    /\ table = {}
    /\ pc = [c \in Callers |-> "idle"]
    /\ call = [c \in Callers |-> NoCall]
    /\ ret = [c \in Callers |-> None]
    /\ live = {}
    /\ stored = [id \in Ids |-> None]
    /\ hist = [c \in Callers |-> NoHist]
    /\ nwrites = 0

Invoke(c, record) ==
    /\ pc[c] = "idle"
    /\ pc' = [pc EXCEPT ![c] = "called"]
    /\ call' = [call EXCEPT ![c] = record]
    /\ UNCHANGED <<table, ret, live, stored, hist>>

IsWrite(name) == name \in {"upsert", "update", "delete"}

\* hist after caller c commits a call on id (a write when wrote is TRUE).
HistAfter(c, id, wrote) ==
    [d \in Callers |->
        IF d = c
        THEN [pre |-> table, pending |-> {e \in Callers \ {c} : pc[e] = "called"},
              after |-> <<>>, failed |-> FALSE]
        ELSE IF wrote /\ pc[d] = "done" /\ IsWrite(call[d].name) /\ call[d].id = id
             THEN [hist[d] EXCEPT !.after = Append(@, c)]
        ELSE hist[d]]

Commit(c, name, newTable, result, newLive, newStored) ==
    /\ pc[c] = "called"
    /\ call[c].name = name
    /\ pc' = [pc EXCEPT ![c] = "done"]
    /\ table' = newTable
    /\ ret' = [ret EXCEPT ![c] = result]
    /\ live' = newLive
    /\ stored' = newStored
    /\ hist' = HistAfter(c, IF "id" \in DOMAIN call[c] THEN call[c].id ELSE "", IsWrite(name))
    /\ UNCHANGED <<call, nwrites>>

\* upsert_scheduled_task up to its await
upsert_scheduled_task(c, in) ==
    /\ nwrites < in.writes
    /\ nwrites' = nwrites + 1
    /\ \E task \in in.tasks :
         Invoke(c, [name |-> "upsert", id |-> task.id, task |-> task,
                    keyvalues |-> UpsertKeyvalues(task), values |-> UpsertValues(task)])

\* the simple_upsert transaction of upsert_scheduled_task, and its return
upsert_scheduled_task_txn(c) ==
    /\ pc[c] = "called" /\ call[c].name = "upsert"
    /\ LET r == simple_upsert(table, call[c].keyvalues, call[c].values) IN
         Commit(c, "upsert", r.tbl,
                IF r.err THEN Raised("IntegrityError") ELSE Returned(None),
                IF r.err THEN live ELSE live \cup {call[c].id},
                IF r.err THEN stored ELSE [stored EXCEPT ![call[c].id] = Some(call[c].task)])

\* update_scheduled_task up to its await
update_scheduled_task(c, in) ==
    /\ nwrites < in.writes
    /\ nwrites' = nwrites + 1
    /\ \E id \in in.ids, kw \in in.kwargs :
         Invoke(c, [name |-> "update", id |-> id, kwargs |-> kw,
                    keyvalues |-> UpdateKeyvalues(id),
                    updatevalues |-> UpdateValues(kw.timestamp, kw.status, kw.result, kw.error)])

\* the simple_update transaction of update_scheduled_task, and nb_rows > 0
update_scheduled_task_txn(c) ==
    /\ pc[c] = "called" /\ call[c].name = "update"
    /\ LET r == simple_update(table, call[c].keyvalues, call[c].updatevalues) IN
         Commit(c, "update", r.tbl, Returned(UpdateReturn(r.rowcount)), live,
                [stored EXCEPT ![call[c].id] = None])

\* get_scheduled_task up to its await
get_scheduled_task(c, in) ==
    /\ \E id \in in.ids : Invoke(c, [name |-> "get", id |-> id])
    /\ UNCHANGED nwrites

\* the simple_select_one transaction of get_scheduled_task, and the conversion
get_scheduled_task_txn(c) ==
    /\ pc[c] = "called" /\ call[c].name = "get"
    /\ Commit(c, "get", table, GetTask(table, call[c].id), live, stored)

\* delete_scheduled_task up to its await
delete_scheduled_task(c, in) ==
    /\ nwrites < in.writes
    /\ nwrites' = nwrites + 1
    /\ \E id \in in.ids :
         Invoke(c, [name |-> "delete", id |-> id, keyvalues |-> DeleteKeyvalues(id)])

\* the simple_delete transaction of delete_scheduled_task
delete_scheduled_task_txn(c) ==
    /\ pc[c] = "called" /\ call[c].name = "delete"
    /\ Commit(c, "delete", simple_delete(table, call[c].keyvalues), Returned(None),
              live \ {call[c].id}, [stored EXCEPT ![call[c].id] = None])

\* get_scheduled_tasks up to its await
get_scheduled_tasks(c, in) ==
    /\ \E f \in in.filters :
         Invoke(c, [name |-> "list", filter |-> f,
                    clauses |-> ListClauses(f.actions, f.resource_ids, f.statuses)])
    /\ UNCHANGED nwrites

\* The sequences that hold each element of the set S once.
Orders(S) ==
    {s \in [1..Cardinality(S) -> S] : \A i, j \in 1..Cardinality(S) : s[i] = s[j] => i = j}

\* the runInteraction of get_scheduled_tasks: the rows come in an order the
\* database chooses, and each is converted
get_scheduled_tasks_run(c) ==
    /\ pc[c] = "called" /\ call[c].name = "list"
    /\ \E rows \in Orders(get_scheduled_tasks_txn(table, call[c].clauses)) :
         Commit(c, "list", table, ConvertRows(rows), live, stored)

\* "except Exception:" around the await, with a normal return
OnStorageError_swallowed(name, exc) ==
    IF name = "update" THEN Returned(FALSE) ELSE Returned(None)

\* No method has a try around its await: what the transaction raises leaves
\* the method as it is.
OnStorageError(name, exc) == Raised(exc)

\* The transaction of a call fails in the database and changes nothing.
StorageFailure(c) ==
    /\ pc[c] = "called"
    /\ pc' = [pc EXCEPT ![c] = "done"]
    /\ ret' = [ret EXCEPT ![c] = OnStorageError(call[c].name, "StorageError")]
    /\ hist' = [hist EXCEPT ![c] = [pre |-> table, pending |-> {}, after |-> <<>>,
                                    failed |-> TRUE]]
    /\ UNCHANGED <<table, call, live, stored, nwrites>>

\* The awaiting caller resumes with the result.
Return(c) ==
    /\ pc[c] = "done"
    /\ pc' = [pc EXCEPT ![c] = "idle"]
    /\ call' = [call EXCEPT ![c] = NoCall]
    /\ ret' = [ret EXCEPT ![c] = None]
    /\ hist' = [hist EXCEPT ![c] = NoHist]
    /\ UNCHANGED <<table, live, stored, nwrites>>

Step(c, in) ==
    \/ upsert_scheduled_task(c, in)
    \/ upsert_scheduled_task_txn(c)
    \/ update_scheduled_task(c, in)
    \/ update_scheduled_task_txn(c)
    \/ get_scheduled_task(c, in)
    \/ get_scheduled_task_txn(c)
    \/ delete_scheduled_task(c, in)
    \/ delete_scheduled_task_txn(c)
    \/ get_scheduled_tasks(c, in)
    \/ get_scheduled_tasks_run(c)
    \/ StorageFailure(c)
    \/ Return(c)

\* One caller at a time, the full inputs.
Next == Step("c1", Inputs)

Spec == Init /\ [][Next]_vars

\* Two callers in flight together, on one id.
NextConc == \E c \in Callers : Step(c, ConcInputs)

SpecConc == Init /\ [][NextConc]_vars

(***************************************************************************)
(* Properties                                                              *)
(***************************************************************************)
\* Caller c's transaction of the named method commits in this step.
Commits(c, name) ==
    /\ pc[c] = "called"
    /\ call[c].name = name
    /\ pc'[c] = "done"
    /\ ~IsRaised(ret'[c])

Done(c, name) == pc[c] = "done" /\ call[c].name = name /\ ~IsRaised(ret[c])

RowsOf(tbl, id) == {r \in tbl : r.id = id}

\* The elements of a sequence.
Range(seq) == {seq[i] : i \in 1..Len(seq)}

\* C1: a get of an id whose last committed write is upsert(T) returns T, field
\* for field, with params and result decoded back to the values given.
C1_UpsertThenGet ==
    [][\A c \in Callers :
         (Commits(c, "get") /\ stored[call[c].id] # None)
             => ret'[c] = Returned(stored[call[c].id])]_vars

\* A get has returned an upserted task with nested params (an object in an
\* object, a string with escapes) while a second record is stored.
C1_Witness ==
    \E c \in Callers :
        /\ Done(c, "get")
        /\ stored[call[c].id] # None
        /\ ret[c] = Returned(stored[call[c].id])
        /\ ret[c].v.v.params = Some(Nested)
        /\ ret[c].v.v.result = None
        /\ Cardinality(table) = 2

\* The task that a row reads back as.
TaskOf(tbl, id) == GetTask(tbl, id).v

UpdateFields == {"timestamp", "status", "result", "error"}

TaskFields == {"id", "action", "status", "timestamp", "resource_id", "params", "result", "error"}

\* The value a supplied keyword argument gives the task attribute.
Supplied(kw, f) == IF f \in {"timestamp", "status"} THEN kw[f].v ELSE kw[f]

\* C2: an update of an existing task sets each supplied attribute to the
\* supplied value and keeps every other attribute of the task.
C2_UpdateFrame ==
    [][\A c \in Callers :
         (Commits(c, "update") /\ RowsOf(table, call[c].id) # {})
             => LET old == TaskOf(table, call[c].id).v
                    new == TaskOf(table', call[c].id).v
                    kw  == call[c].kwargs
                IN /\ TaskOf(table', call[c].id) # None
                   /\ \A f \in TaskFields :
                        new[f] = IF f \in UpdateFields /\ kw[f] # None
                                 THEN Supplied(kw, f) ELSE old[f]]_vars

\* update(id, status=complete, result={"x": 1}) has committed on a failed task
\* that carried an error, params and another result.
C2_Witness ==
    \E c \in Callers :
        /\ Done(c, "update")
        /\ ret[c] = Returned(TRUE)
        /\ call[c].kwargs = Kwargs(None, Some("complete"), Some(X1), None)
        /\ LET old == TaskOf(hist[c].pre, call[c].id).v
               new == TaskOf(table, call[c].id).v
           IN /\ old.status = "failed" /\ old.error = Some("boom")
              /\ old.result = Some(JObj(<<>>)) /\ old.params = Some(X1)
              /\ new.status = "complete" /\ new.result = Some(X1)
              /\ new.error = Some("boom") /\ new.params = Some(X1)

AllTasks == Filter(None, None, None)

\* C4: list() without filter returns exactly one task for each id upserted and
\* not deleted since its last upsert, and no other task.
C4_ListAll ==
    [][\A c \in Callers :
         (Commits(c, "list") /\ call[c].filter = AllTasks)
             => /\ Len(ret'[c].v) = Cardinality(live)
                /\ {t.id : t \in Range(ret'[c].v)} = live]_vars

\* list() has returned both stored tasks, one of them updated since its upsert.
C4_Witness ==
    \E c \in Callers :
        /\ Done(c, "list")
        /\ call[c].filter = AllTasks
        /\ live = Ids
        /\ Len(ret[c].v) = 2
        /\ \E id \in Ids : stored[id] = None

\* The rows that pass the filter arg on column col: every row when the argument
\* is omitted, the rows without a value when it is empty, the rows whose value
\* is one of its values otherwise.
Passing(tbl, col, arg) ==
    {r \in tbl :
        \/ arg = None
        \/ arg # None /\ arg.v = <<>> /\ col \in NullableCols /\ r[col] = None
        \/ arg # None /\ arg.v # <<>>
           /\ \E v \in Range(arg.v) : IF col \in NullableCols THEN r[col] = Some(v)
                                      ELSE r[col] = v}

Reversed(seq) == [i \in 1..Len(seq) |-> seq[Len(seq) + 1 - i]]

ReversedArg(arg) == IF arg = None THEN None ELSE Some(Reversed(arg.v))

\* The rows the code selects for a filter.
Selected(tbl, f) ==
    get_scheduled_tasks_txn(tbl, ListClauses(f.actions, f.resource_ids, f.statuses))

\* C5: list returns one task for each stored row that passes every supplied
\* filter, which is the intersection of the rows each filter selects alone;
\* the order of the values in the collections does not matter.
C5_FiltersAnded ==
    [][\A c \in Callers :
         Commits(c, "list")
             => LET f    == call[c].filter
                    want == Passing(table, "action", f.actions)
                            \cap Passing(table, "resource_id", f.resource_ids)
                            \cap Passing(table, "status", f.statuses)
                    got  == ret'[c].v
                IN /\ Len(got) = Cardinality(want)
                   /\ {t.id : t \in Range(got)} = {r.id : r \in want}
                   /\ Selected(table, f) = want
                   /\ want = Selected(table, Filter(f.actions, None, None))
                             \cap Selected(table, Filter(None, f.resource_ids, None))
                             \cap Selected(table, Filter(None, None, f.statuses))
                   /\ Selected(table, Filter(ReversedArg(f.actions),
                                             ReversedArg(f.resource_ids),
                                             ReversedArg(f.statuses))) = want]_vars

\* list(actions=[a2, a1], resource_ids=[r1]) has returned one of two stored
\* tasks; the other passes the actions filter and fails the resource_ids one.
C5_Witness ==
    \E c \in Callers :
        /\ Done(c, "list")
        /\ call[c].filter = Filter(Some(<<"a2", "a1">>), Some(<<"r1">>), None)
        /\ Cardinality(table) = 2
        /\ Len(ret[c].v) = 1
        /\ \E r \in table : r.action = "a1" /\ r.resource_id = Some("r2")

\* Caller c's transaction of the named method runs in this step without a
\* failure of the storage.
Runs(c, name) ==
    /\ pc[c] = "called"
    /\ call[c].name = name
    /\ pc'[c] = "done"
    /\ ret'[c] # Raised("StorageError")

\* C6: update returns true when a record with the id is stored as it runs and
\* false when none is; with false it raises nothing and the table is unchanged.
C6_UpdateReturnsExists ==
    [][\A c \in Callers :
         Runs(c, "update")
             => /\ ret'[c] = Returned(RowsOf(table, call[c].id) # {})
                /\ (RowsOf(table, call[c].id) = {} => table' = table)]_vars

\* An update of an id that is not stored has returned false while another id is
\* stored, and the table is as before.
C6_Witness ==
    \E c \in Callers :
        /\ Done(c, "update")
        /\ ret[c] = Returned(FALSE)
        /\ call[c].updatevalues # <<>>
        /\ table # {}
        /\ table = hist[c].pre
        /\ RowsOf(table, call[c].id) = {}

\* The keyword arguments a call of update supplies.
SuppliedFields(kw) == {f \in UpdateFields : kw[f] # None}

\* d wrote the id of c after c did, both are still in flight, and no other
\* write of that id has committed since c.
WroteInTurn(c, d) ==
    /\ c # d
    /\ pc[c] = "done" /\ pc[d] = "done"
    /\ IsWrite(call[c].name) /\ IsWrite(call[d].name)
    /\ ~IsRaised(ret[c]) /\ ~IsRaised(ret[d])
    /\ call[c].id = call[d].id
    /\ hist[c].after = <<d>>
    /\ hist[d].after = <<>>

\* C7: two updates of one existing id that supply disjoint fields and are in
\* flight together both commit (the transaction of a waiting update can always
\* run), and the record then holds every value either of them supplied.
C7_DisjointUpdates ==
    /\ \A c \in Callers :
         (pc[c] = "called" /\ call[c].name = "update")
             => ENABLED update_scheduled_task_txn(c)
    /\ \A c, d \in Callers :
         (/\ WroteInTurn(c, d)
          /\ call[c].name = "update" /\ call[d].name = "update"
          /\ SuppliedFields(call[c].kwargs) \cap SuppliedFields(call[d].kwargs) = {}
          /\ RowsOf(hist[c].pre, call[c].id) # {})
             => /\ ret[c] = Returned(TRUE) /\ ret[d] = Returned(TRUE)
                /\ TaskOf(table, call[c].id) # None
                /\ \A e \in {c, d} : \A f \in SuppliedFields(call[e].kwargs) :
                     TaskOf(table, call[c].id).v[f] = Supplied(call[e].kwargs, f)

\* update(status=failed, error=boom) and update(result={"x": 1}) were both
\* waiting on their transaction; the first committed, then the second, and the
\* record holds the status, the error and the result.
C7_Witness ==
    \E c, d \in Callers :
        /\ WroteInTurn(c, d)
        /\ d \in hist[c].pending
        /\ call[c].name = "update" /\ call[d].name = "update"
        /\ call[c].kwargs = Kwargs(None, Some("failed"), None, Some("boom"))
        /\ call[d].kwargs = Kwargs(None, None, Some(X1), None)
        /\ ret[c] = Returned(TRUE) /\ ret[d] = Returned(TRUE)
        /\ LET old == TaskOf(hist[c].pre, call[c].id).v
               new == TaskOf(table, call[c].id).v
           IN /\ old.status = "scheduled" /\ old.error = None /\ old.result = None
              /\ new.status = "failed" /\ new.error = Some("boom")
              /\ new.result = Some(X1)

\* What a write makes of the task stored under its id (None: no record), when
\* it runs alone.
Alone(w, st) ==
    CASE w.name = "upsert" -> Some(w.task)
      [] w.name = "delete" -> None
      [] w.name = "update" ->
           IF st = None THEN None
           ELSE Some([f \in TaskFields |->
                        IF f \in SuppliedFields(w.kwargs)
                        THEN Supplied(w.kwargs, f) ELSE st.v[f]])

\* An upsert and an update, or two updates that supply a common field.
Racing(v, w) ==
    \/ {v.name, w.name} = {"upsert", "update"}
    \/ /\ v.name = "update" /\ w.name = "update"
       /\ SuppliedFields(v.kwargs) \cap SuppliedFields(w.kwargs) # {}

\* C8: an upsert and an update of one id, or two updates of a common field, in
\* flight together: neither is rejected (a waiting transaction can always run
\* and no write raises but for a storage failure), and the record is what the
\* two calls give when run one after the other, in one of the two orders.
C8_LastWriteWins ==
    /\ \A c \in Callers :
         /\ (pc[c] = "called" /\ call[c].name = "upsert")
                => ENABLED upsert_scheduled_task_txn(c)
         /\ (pc[c] = "done" /\ IsWrite(call[c].name) /\ IsRaised(ret[c]))
                => ret[c] = Raised("StorageError")
    /\ \A c, d \in Callers :
         (WroteInTurn(c, d) /\ Racing(call[c], call[d]))
             => LET base == TaskOf(hist[c].pre, call[c].id)
                IN TaskOf(table, call[c].id)
                       \in {Alone(call[d], Alone(call[c], base)),
                            Alone(call[c], Alone(call[d], base))}

\* An update and an upsert were both waiting; the update committed and wrote
\* status, error; the upsert committed after it and the record is the upserted
\* task, with none of the values the update wrote.
C8_Witness ==
    \E c, d \in Callers :
        /\ WroteInTurn(c, d)
        /\ d \in hist[c].pending
        /\ call[c].name = "update" /\ call[d].name = "upsert"
        /\ ret[c] = Returned(TRUE)
        /\ call[c].kwargs = Kwargs(None, Some("failed"), None, Some("boom"))
        /\ TaskOf(table, call[c].id) = Some(call[d].task)
        /\ call[d].task.status = "complete" /\ call[d].task.error = None

\* C9: a delete raises nothing; after it get of the id returns None and no
\* list selects a row of the id, until the id is upserted again; a delete of an
\* id that is not stored leaves the table as it is, and so does a second
\* delete of the same id.
C9_DeleteRemoves ==
    [][\A c \in Callers :
         /\ Runs(c, "delete")
                => /\ ret'[c] = Returned(None)
                   /\ GetTask(table', call[c].id) = Returned(None)
                   /\ \A f \in FilterPool : \A r \in Selected(table', f) :
                        r.id # call[c].id
                   /\ (RowsOf(table, call[c].id) = {} => table' = table)
                   /\ simple_delete(table', DeleteKeyvalues(call[c].id)) = table'
         /\ (Commits(c, "get") /\ call[c].id \notin live)
                => ret'[c] = Returned(None)
         /\ Commits(c, "list")
                => \A t \in Range(ret'[c].v) : t.id \in live]_vars

\* A delete has removed the record of its id and left the record of the other.
C9_Witness ==
    \E c \in Callers :
        /\ Done(c, "delete")
        /\ RowsOf(hist[c].pre, call[c].id) # {}
        /\ RowsOf(table, call[c].id) = {}
        /\ Cardinality(table) = 1
        /\ call[c].id \notin live

\* C10: the table never holds two rows of one id; an upsert of T raises
\* nothing, leaves exactly one row of T's id, which reads back as T with every
\* attribute T's (None where T has None), leaves the other rows alone, and a
\* second upsert of T changes nothing.
C10_UpsertReplaces ==
    [][/\ \A id \in Ids : Cardinality(RowsOf(table', id)) <= 1
       /\ \A c \in Callers :
            Runs(c, "upsert")
                => LET T == call[c].task IN
                   /\ ret'[c] = Returned(None)
                   /\ Cardinality(RowsOf(table', T.id)) = 1
                   /\ TaskOf(table', T.id) = Some(T)
                   /\ table' \ RowsOf(table', T.id) = table \ RowsOf(table, T.id)
                   /\ simple_upsert(table', UpsertKeyvalues(T), UpsertValues(T)).tbl
                          = table']_vars

\* An upsert of a task without result and error has replaced a failed task that
\* had both, under the same id and next to another record.
C10_Witness ==
    \E c \in Callers :
        /\ Done(c, "upsert")
        /\ call[c].task.result = None /\ call[c].task.error = None
        /\ \E r \in hist[c].pre :
             r.id = call[c].id /\ r.result # None /\ r.error = Some("boom")
        /\ Cardinality(hist[c].pre) = 2
        /\ Cardinality(table) = 2
        /\ TaskOf(table, call[c].id) = Some(call[c].task)

\* The task reads row as it is stored: the plain columns equal, params and
\* result None for NULL and otherwise a value whose encoding is the stored text.
ReadsAs(task, row) ==
    /\ \A f \in {"id", "action", "status", "timestamp", "resource_id", "error"} :
         task[f] = row[f]
    /\ \A f \in {"params", "result"} :
         IF row[f] = None THEN task[f] = None
         ELSE task[f] # None /\ json_dumps(task[f].v) = row[f].v

\* C11: get raises nothing for a missing id; it returns None exactly when no
\* row of the id is stored and the stored task otherwise; get and list leave
\* the table as it is.
C11_GetAbsentOrStored ==
    [][\A c \in Callers :
         /\ Runs(c, "get")
                => /\ ~IsRaised(ret'[c])
                   /\ (ret'[c].v = None) <=> (RowsOf(table, call[c].id) = {})
                   /\ \A r \in RowsOf(table, call[c].id) :
                        ret'[c].v # None /\ ReadsAs(ret'[c].v.v, r)
                   /\ table' = table
         /\ Runs(c, "list") => table' = table]_vars

\* A get of an id that is not stored has returned None while a record of the
\* other id is stored.
C11_Witness ==
    \E c \in Callers :
        /\ Done(c, "get")
        /\ ret[c] = Returned(None)
        /\ RowsOf(table, call[c].id) = {}
        /\ table # {}
        /\ table = hist[c].pre

EmptyObjectText == <<"{", "}">>

\* C12: for params and for result, in every row None is read as None and the
\* text of the empty object as the empty object; an upsert stores None for
\* None and the text of the empty object for the empty object.
C12_AbsentIsNotEmpty ==
    [][/\ \A r \in table' : \A f \in {"params", "result"} :
            LET t == TaskOf(table', r.id).v IN
            /\ (r[f] = None) <=> (t[f] = None)
            /\ (r[f] = Some(EmptyObjectText)) <=> (t[f] = Some(JObj(<<>>)))
       /\ \A c \in Callers :
            Runs(c, "upsert")
                => \A r \in RowsOf(table', call[c].id) : \A f \in {"params", "result"} :
                     /\ (call[c].task[f] = None) <=> (r[f] = None)
                     /\ (call[c].task[f] = Some(JObj(<<>>)))
                            <=> (r[f] = Some(EmptyObjectText))]_vars

\* A task with empty params is stored with the text {} and reads back with
\* empty params, next to a task stored with NULL params that reads back None.
C12_Witness ==
    \E c \in Callers :
        /\ Done(c, "upsert")
        /\ call[c].task.params = Some(JObj(<<>>))
        /\ \E r \in RowsOf(table, call[c].id) : r.params = Some(EmptyObjectText)
        /\ TaskOf(table, call[c].id).v.params = Some(JObj(<<>>))
        /\ \E r \in table : r.params = None /\ TaskOf(table, r.id).v.params = None

IdsOf(tbl) == {r.id : r \in tbl}

\* C13: the table changes only in the transaction of an upsert, update or
\* delete, which leaves the rows of every other id alone; only an upsert adds
\* an id, and only a delete removes one, its own.
C13_OtherRecordsUntouched ==
    [][/\ table' # table
            => \E c \in Callers : \E name \in {"upsert", "update", "delete"} :
                 Runs(c, name)
       /\ \A c \in Callers : \A name \in {"upsert", "update", "delete"} :
            Runs(c, name)
                => /\ {r \in table' : r.id # call[c].id}
                          = {r \in table : r.id # call[c].id}
                   /\ (name # "upsert" => IdsOf(table') \subseteq IdsOf(table))
                   /\ (name # "delete" => IdsOf(table) \subseteq IdsOf(table'))]_vars

\* An update has changed the record of its id and left the record of the other
\* id as it was.
C13_Witness ==
    \E c \in Callers :
        /\ Done(c, "update")
        /\ ret[c] = Returned(TRUE)
        /\ Cardinality(table) = 2
        /\ RowsOf(table, call[c].id) # RowsOf(hist[c].pre, call[c].id)
        /\ table \ RowsOf(table, call[c].id)
               = hist[c].pre \ RowsOf(hist[c].pre, call[c].id)

\* C14: the status of every stored row is one of the four values of
\* TaskStatus, and no get or list has raised the ValueError of the conversion.
C14_StatusEnumerated ==
    /\ \A r \in table : r.status \in TaskStatusValues
    /\ \A c \in Callers : ret[c] # Raised("ValueError")

\* A get has returned a task of action a2 with status complete: the status was
\* written by an update, no task of that action is upserted complete.
C14_Witness ==
    \E c \in Callers :
        /\ Done(c, "get")
        /\ ret[c].v # None
        /\ stored[call[c].id] = None
        /\ ret[c].v.v.action = "a2"
        /\ ret[c].v.v.status = "complete"

\* C15: an update that supplies a status, on a stored task of any status,
\* returns true and leaves the stored status equal to the supplied one.
C15_NoTransitionRule ==
    [][\A c \in Callers :
         (/\ Runs(c, "update")
          /\ call[c].kwargs.status # None
          /\ RowsOf(table, call[c].id) # {})
             => /\ ret'[c] = Returned(TRUE)
                /\ RowsOf(table', call[c].id) # {}
                /\ \A r \in RowsOf(table', call[c].id) :
                     r.status = call[c].kwargs.status.v]_vars

\* update(id, status=scheduled) has put a complete task back to scheduled.
C15_Witness ==
    \E c \in Callers :
        /\ Done(c, "update")
        /\ ret[c] = Returned(TRUE)
        /\ call[c].kwargs = Kwargs(None, Some("scheduled"), None, None)
        /\ \E r \in RowsOf(hist[c].pre, call[c].id) : r.status = "complete"
        /\ \E r \in RowsOf(table, call[c].id) : r.status = "scheduled"

\* C16: when the transaction of an upsert, update or delete fails, the call
\* ends with the error raised, the table is the table before the call, and the
\* call is not run again: its next step is the return of the error.
C16_StorageFailurePropagates ==
    [][\A c \in Callers :
         /\ (pc[c] = "called" /\ pc'[c] = "done" /\ hist'[c].failed)
                => /\ ret'[c] = Raised("StorageError")
                   /\ table' = table
         /\ (pc[c] = "done" /\ hist[c].failed /\ pc'[c] # pc[c])
                => /\ pc'[c] = "idle"
                   /\ table' = table
                   /\ table = hist[c].pre]_vars

\* The transaction of an update that would have changed a stored task has
\* failed: the caller holds the error and the table is as before.
C16_Witness ==
    \E c \in Callers :
        /\ pc[c] = "done"
        /\ call[c].name = "update"
        /\ hist[c].failed
        /\ ret[c] = Raised("StorageError")
        /\ table = hist[c].pre
        /\ \E r \in RowsOf(table, call[c].id) :
             call[c].kwargs.status # None /\ r.status # call[c].kwargs.status.v

NoKwargs == Kwargs(None, None, None, None)

C18_PresenceNotTruthiness ==
    [][\A c \in Callers :
         Runs(c, "update")
             => \A r \in RowsOf(table', call[c].id) :
                  LET kw == call[c].kwargs IN
                  /\ kw.timestamp = Some(0) => r.timestamp = 0
                  /\ kw.result = Some(JObj(<<>>))
                         => /\ r.result = Some(EmptyObjectText)
                            /\ TaskOf(table', r.id).v.result = Some(JObj(<<>>))
                  /\ kw.error = Some("") => r.error = Some("")]_vars

\* update(id, timestamp=0, result={}, error="") has committed on a task with
\* timestamp 1000, another result and no error, and the three values are stored.
C18_Witness ==
    \E c \in Callers :
        /\ Done(c, "update")
        /\ ret[c] = Returned(TRUE)
        /\ call[c].kwargs = Kwargs(Some(0), None, Some(JObj(<<>>)), Some(""))
        /\ \E r \in RowsOf(hist[c].pre, call[c].id) :
             r.timestamp = 1000 /\ r.result = Some(json_dumps(X1)) /\ r.error = None
        /\ \E r \in RowsOf(table, call[c].id) :
             r.timestamp = 0 /\ r.result = Some(EmptyObjectText) /\ r.error = Some("")

\* C19: an update never turns a stored result or error into None; a row whose
\* result or error is present loses it (or is removed) only in the transaction
\* of an upsert or a delete of its id.
C19_UpdateNeverClears ==
    [][/\ \A c \in Callers :
            Runs(c, "update")
                => \A r \in RowsOf(table, call[c].id) : \A f \in {"result", "error"} :
                     r[f] # None
                         => /\ RowsOf(table', call[c].id) # {}
                            /\ \A q \in RowsOf(table', call[c].id) : q[f] # None
       /\ \A r \in table : \A f \in {"result", "error"} :
            (r[f] # None /\ \A q \in RowsOf(table', r.id) : q[f] = None)
                => \E c \in Callers :
                     /\ call[c].id = r.id
                     /\ Runs(c, "upsert") \/ Runs(c, "delete")]_vars

\* A failed task with an error has been updated to status complete alone and
\* still carries the error.
C19_Witness ==
    \E c \in Callers :
        /\ Done(c, "update")
        /\ ret[c] = Returned(TRUE)
        /\ call[c].kwargs = Kwargs(None, Some("complete"), None, None)
        /\ \E r \in RowsOf(hist[c].pre, call[c].id) :
             r.status = "failed" /\ r.error = Some("boom")
        /\ \E r \in RowsOf(table, call[c].id) :
             r.status = "complete" /\ r.error = Some("boom")

\* C20: a list with the empty collection for actions or for statuses returns
\* the empty sequence, whatever the other filters and the table.
C20_EmptyActionsOrStatuses ==
    [][\A c \in Callers :
         (/\ Commits(c, "list")
          /\ \/ call[c].filter.actions = Some(<<>>)
             \/ call[c].filter.statuses = Some(<<>>))
             => ret'[c] = Returned(<<>>)]_vars

\* list(actions=[]) has returned nothing from a table of two tasks, all of
\* which the list without argument selects.
C20_Witness ==
    \E c \in Callers :
        /\ Done(c, "list")
        /\ call[c].filter = Filter(Some(<<>>), None, None)
        /\ ret[c] = Returned(<<>>)
        /\ Cardinality(table) = 2
        /\ Selected(table, AllTasks) = table

====
